---- MODULE Spec2Model ----
(***************************************************************************)
(* Model of the audio analysis core of QuantumLive                         *)
(* (src/src/backend/core/audio_analysis.py, metadata.py).                  *)
(*                                                                         *)
(* Times are exact multiples of one tick = 1/TicksPerSec second; the       *)
(* inputs drawn are those whose Python floats are exact in that unit.      *)
(* Samples are integers (astype(float) keeps the value).                   *)
(***************************************************************************)
EXTENDS Integers, Sequences, FiniteSets, TLC

VARIABLES
    pc,                  \* position of the call under way
    entry,               \* function called from outside
    intervalos,          \* argument intervalos (None is modelled as << >>: both are falsy)
    auto_cues,           \* argument auto_cues
    beats_por_cue,       \* argument beats_por_cue
    max_muestras,        \* argument max_muestras / max_muestras_cue
    modo,                \* which librosa.load call was made: "none", "full", "fast"
    y,                   \* sample buffer (the segment, for _downsample)
    sr,                  \* sample rate
    tempo,               \* tempo reported by librosa.beat.beat_track
    beat_frames,         \* beat positions, [kind, frames]
    duracion,            \* duration in ticks
    intervalos_limpios,  \* local intervalos_limpios of analizar_audio
    cues,                \* local cues of analizar_audio
    llamadas,            \* helpers invoked by the call under way
    resultado,           \* the AnalysisResult built by analizar_audio, NoValue until then
    error,               \* exception raised by the call, "none" if none
    retorno              \* value returned to the caller, NoValue until then

vars == << pc, entry, intervalos, auto_cues, beats_por_cue, max_muestras, modo, y, sr,
           tempo, beat_frames, duracion, intervalos_limpios, cues, llamadas, resultado,
           error, retorno >>

-----------------------------------------------------------------------------
(* Bounds of the model *)

MaxSeg == 5             \* longest segment handed to _downsample
MaxBeats == 4           \* longest beat list handed to _intervalos_desde_beats
MaxFrame == 5           \* largest beat frame index
MaxBuf == 3             \* longest low-rate sample buffer
MaxIntervalos == 2      \* longest interval list handed to _extraer_cues
MaxExplicitos == 2      \* longest explicit interval list handed to the entry points

(* Program constants *)

DEFAULT_MAX_MUESTRAS_CUE == 2048
DEFAULT_BEATS_POR_CUE == 4
FAST_SR == 22050
HOP_LENGTH == 512       \* librosa.frames_to_time default hop_length

TicksPerSec == 2 * 1000
MinSpan == TicksPerSec \div 1000      \* the 1e-3 s threshold of line 42

NoValue == [tipo |-> "NoValue"]

Min(a, b) == IF a <= b THEN a ELSE b
Max(a, b) == IF a >= b THEN a ELSE b

-----------------------------------------------------------------------------
(* _downsample *)

\* mutant: endpoint excluded (np.linspace(..., endpoint=False))
Linspace_NoEndpoint(size, num, i) == (i * (size - 1)) \div num

\* mutant: the step is inverted, (num - 1) / (size - 1) instead of (size - 1) / (num - 1)
Linspace_PasoInvertido(size, num, i) ==
    IF num = 1 THEN 0
    ELSE IF i = num - 1 THEN size - 1
    ELSE (i * (num - 1)) \div (size - 1)

\* np.linspace(0, size - 1, num=num, dtype=int): position i (0-based) of the result
Linspace(size, num, i) ==
    IF num = 1 THEN 0
    ELSE IF i = num - 1 THEN size - 1
    ELSE (i * (size - 1)) \div (num - 1)

_downsample_Indices(size, num) == [i \in 1..num |-> Linspace(size, num, i - 1)]

\* mutant: one point too many is selected (num=max_muestras + 1)
_downsample_UnoMas(segmento, max_muestras_) ==
    IF Len(segmento) = 0 THEN << >>
    ELSE IF max_muestras_ <= 0 \/ Len(segmento) <= max_muestras_ THEN segmento
    ELSE [i \in 1..(max_muestras_ + 1) |->
             segmento[_downsample_Indices(Len(segmento), max_muestras_ + 1)[i] + 1]]

_downsample(segmento, max_muestras_) ==
    IF Len(segmento) = 0 THEN << >>
    ELSE IF max_muestras_ <= 0 \/ Len(segmento) <= max_muestras_ THEN segmento
    ELSE [i \in 1..max_muestras_ |->
             segmento[_downsample_Indices(Len(segmento), max_muestras_)[i] + 1]]

-----------------------------------------------------------------------------
(* _intervalos_desde_beats *)

\* librosa.frames_to_time(frames, sr=sr): frame * hop_length / sr seconds, in ticks
frames_to_time(frame, sr_) == (frame * HOP_LENGTH * TicksPerSec) \div sr_

Tiempos(frames, sr_) == [k \in 1..Len(frames) |-> frames_to_time(frames[k], sr_)]

\* outcomes of the truth test `not beat_frames` (line 31).  A list is falsy when
\* empty.  A numpy array of two or more elements has no truth value (ValueError);
\* one of a single element has its element's; an empty one is falsy in numpy
\* releases before 2.2 and raises ValueError from 2.2 on.
NotBeatFrames(bf) ==
    IF bf.kind = "list" THEN {IF Len(bf.frames) = 0 THEN "True" ELSE "False"}
    ELSE IF Len(bf.frames) = 0 THEN {"True", "ValueError"}
    ELSE IF Len(bf.frames) = 1 THEN {IF bf.frames[1] = 0 THEN "True" ELSE "False"}
    ELSE {"ValueError"}

\* mutant: each stride ends one beat too far (fin_indice = indice + paso + 1)
RECURSIVE Candidatos_UnoDeMas(_, _, _)
Candidatos_UnoDeMas(tiempos, paso, indice) ==
    IF indice >= Len(tiempos) - 1 THEN << >>
    ELSE LET inicio == tiempos[indice + 1]
             fin_indice == Min(indice + paso + 1, Len(tiempos) - 1)
             fin == tiempos[fin_indice + 1]
         IN (IF fin - inicio <= MinSpan THEN << >> ELSE << << inicio, fin >> >>)
                \o Candidatos_UnoDeMas(tiempos, paso, indice + paso)

\* the loop of lines 38-44 from 0-based position indice on
RECURSIVE Candidatos(_, _, _)
Candidatos(tiempos, paso, indice) ==
    IF indice >= Len(tiempos) - 1 THEN << >>
    ELSE LET inicio == tiempos[indice + 1]
             fin_indice == Min(indice + paso, Len(tiempos) - 1)
             fin == tiempos[fin_indice + 1]
         IN (IF fin - inicio <= MinSpan THEN << >> ELSE << << inicio, fin >> >>)
                \o Candidatos(tiempos, paso, indice + paso)

\* mutant: the last interval is never stretched to the duration
Cerrar_SinEstirar(ints, duracion_) ==
    IF ints = << >> THEN << << 0, duracion_ >> >> ELSE ints

\* mutant: no fallback when no candidate survives
Cerrar_SinRespaldo(ints, duracion_) ==
    IF ints = << >> THEN << >>
    ELSE LET ultimo == ints[Len(ints)]
         IN IF ultimo[2] < duracion_
            THEN [ints EXCEPT ![Len(ints)] = << ultimo[1], duracion_ >>]
            ELSE ints

\* lines 46-51
Cerrar(ints, duracion_) ==
    IF ints = << >> THEN << << 0, duracion_ >> >>
    ELSE LET ultimo == ints[Len(ints)]
         IN IF ultimo[2] < duracion_
            THEN [ints EXCEPT ![Len(ints)] = << ultimo[1], duracion_ >>]
            ELSE ints

\* vacio is the outcome of `not beat_frames`
_intervalos_desde_beats(frames, sr_, duracion_, beats_por_cue_, vacio) ==
    IF vacio THEN << << 0, duracion_ >> >>
    ELSE Cerrar(Candidatos(Tiempos(frames, sr_), Max(1, beats_por_cue_), 0), duracion_)

-----------------------------------------------------------------------------
(* metadata.Cue, metadata.AnalysisResult *)

Cue(nombre, inicio, fin, forma) ==
    [nombre |-> nombre, inicio |-> inicio, fin |-> fin, forma |-> forma]

\* Field(ge=0), Field(gt=0) and validar_fin
CueValido(c) == c.inicio >= 0 /\ c.fin > 0 /\ c.fin > c.inicio

AnalysisResult(bpm, duracion_, sample_rate, cues_) ==
    [bpm |-> bpm, duracion |-> duracion_, sample_rate |-> sample_rate, cues |-> cues_]

\* Field(gt=0) on bpm, duracion, sample_rate; every cue validated as a Cue
AnalysisResultValido(r) ==
    /\ r.bpm > 0
    /\ r.duracion > 0
    /\ r.sample_rate > 0
    /\ \A k \in 1..Len(r.cues) : CueValido(r.cues[k])

-----------------------------------------------------------------------------
(* _extraer_cues *)

\* float(len(y) / sr) if sr else 0.0, in ticks
DuracionTotal(y_, sr_) == IF sr_ # 0 THEN (Len(y_) * TicksPerSec) \div sr_ ELSE 0

\* int(t * sr) for a time of t ticks
Muestra(t, sr_) == (t * sr_) \div TicksPerSec

\* mutant: cues are numbered from 1
NombreCue_DesdeUno(indice) == "cue_" \o ToString(indice + 1)

\* f"cue_{indice}"
NombreCue(indice) == "cue_" \o ToString(indice)

\* mutant: the end is not clipped to the buffer's duration
Recortar_SinTope(inicio, fin, duracion_total) == << Max(0, inicio), fin >>

\* lines 68-69
Recortar(inicio, fin, duracion_total) == << Max(0, inicio), Min(fin, duracion_total) >>

\* lines 67-87 from 0-based position indice on; y[a:b] stops at the buffer's end
RECURSIVE ExtraerDesde(_, _, _, _, _)
ExtraerDesde(y_, sr_, ints, max_muestras_, indice) ==
    IF indice >= Len(ints) THEN << >>
    ELSE LET seg == Recortar(ints[indice + 1][1], ints[indice + 1][2],
                             DuracionTotal(y_, sr_))
             inicio_seg == seg[1]
             fin_seg == seg[2]
             inicio_muestra == Muestra(inicio_seg, sr_)
             fin_muestra == Muestra(fin_seg, sr_)
             segmento == SubSeq(y_, inicio_muestra + 1, Min(fin_muestra, Len(y_)))
             resto == ExtraerDesde(y_, sr_, ints, max_muestras_, indice + 1)
         IN IF fin_seg <= inicio_seg THEN resto
            ELSE IF Len(segmento) = 0 THEN resto
            ELSE << Cue(NombreCue(indice), inicio_seg, fin_seg,
                        _downsample(segmento, max_muestras_)) >> \o resto

\* the cues built, and ValidationError when a Cue's construction is rejected
_extraer_cues(y_, sr_, ints, max_muestras_) ==
    LET cs == ExtraerDesde(y_, sr_, ints, max_muestras_, 0)
    IN IF \A k \in 1..Len(cs) : CueValido(cs[k])
       THEN [error |-> "none", cues |-> cs]
       ELSE [error |-> "ValidationError", cues |-> << >>]

-----------------------------------------------------------------------------
(* Inputs *)

Samples == {0, 1}

SeqsUpTo(S, n) == UNION {[1..k -> S] : k \in 0..n}

Ramp(n) == [i \in 1..n |-> i]

\* beat positions as the tracker orders them: non-decreasing frame indices
BeatLists ==
    {b \in SeqsUpTo(0..MaxFrame, MaxBeats) : \A k \in 1..(Len(b) - 1) : b[k] <= b[k + 1]}

\* sample rates at which a frame lasts 1 s, 1 ms and 0.5 ms
DeriverRates == {512, 512000, 1024000}

Durations == {3, 7, 5000, 12000}

BeatsPorCue == {0, 1, 2, 4}

\* interval bounds in ticks: negative, zero, inside and beyond the buffer
Inicios == {-1000, 0, 500}
Fines == {0, 700, 1000, 9000}
Pares == {<< a, b >> : a \in Inicios, b \in Fines}

ExtractorRates == {0, 1, 2, 4}

MaxMuestras == {-1, 0, 1, 2}

\* intervals a caller hands to analizar_audio / calcular_cues
ParesExplicitos == {<< -1000, 1000 >>, << 0, 700 >>, << 500, 0 >>, << 500, 1000 >>,
                    << 0, 9000 >>}

\* what librosa.load yields: in the fast call the rate asked for, in the full call
\* the rate the loader settles on
Decoded(modo_) ==
    IF modo_ = "fast"
    THEN {[y |-> Ramp(n), sr |-> FAST_SR] : n \in {0, 441}}
    ELSE {[y |-> Ramp(n), sr |-> 2] : n \in 0..MaxBuf}
             \cup {[y |-> Ramp(n), sr |-> FAST_SR] : n \in {0, 441}}

Tempos == {0, 120}

TrackerBeats == {<< >>, << 0 >>, << 3 >>, << 2, 4 >>}

Rest(e) ==
    /\ entry = e
    /\ modo = "none"
    /\ tempo = 0
    /\ intervalos_limpios = << >>
    /\ cues = << >>
    /\ llamadas = {}
    /\ resultado = NoValue
    /\ error = "none"
    /\ retorno = NoValue

-----------------------------------------------------------------------------
(* _downsample applied to every bounded segment and count *)

InitDownsample ==
    /\ pc = "call"
    /\ Rest("_downsample")
    /\ y \in SeqsUpTo(Samples, MaxSeg) \cup {Ramp(n) : n \in 2..MaxSeg}
    /\ max_muestras \in -1..(MaxSeg + 1)
    /\ intervalos = << >>
    /\ auto_cues = FALSE
    /\ beats_por_cue = DEFAULT_BEATS_POR_CUE
    /\ sr = 0
    /\ beat_frames = [kind |-> "list", frames |-> << >>]
    /\ duracion = 0

ApplyDownsample ==
    /\ pc = "call"
    /\ entry = "_downsample"
    /\ retorno' = _downsample(y, max_muestras)
    /\ pc' = "done"
    /\ UNCHANGED << entry, intervalos, auto_cues, beats_por_cue, max_muestras, modo, y, sr,
                    tempo, beat_frames, duracion, intervalos_limpios, cues, llamadas,
                    resultado, error >>

-----------------------------------------------------------------------------
(* _intervalos_desde_beats applied to every bounded beat list *)

InitIntervalos ==
    /\ pc = "call"
    /\ Rest("_intervalos_desde_beats")
    /\ \E b \in BeatLists : beat_frames = [kind |-> "list", frames |-> b]
    /\ sr \in DeriverRates
    /\ duracion \in Durations
    /\ beats_por_cue \in BeatsPorCue
    /\ y = << >>
    /\ max_muestras = DEFAULT_MAX_MUESTRAS_CUE
    /\ intervalos = << >>
    /\ auto_cues = FALSE

ApplyIntervalos ==
    /\ pc = "call"
    /\ entry = "_intervalos_desde_beats"
    /\ \E o \in NotBeatFrames(beat_frames) :
          /\ o # "ValueError"
          /\ retorno' = _intervalos_desde_beats(beat_frames.frames, sr, duracion,
                                                beats_por_cue, o = "True")
    /\ pc' = "done"
    /\ UNCHANGED << entry, intervalos, auto_cues, beats_por_cue, max_muestras, modo, y, sr,
                    tempo, beat_frames, duracion, intervalos_limpios, cues, llamadas,
                    resultado, error >>

-----------------------------------------------------------------------------
(* _extraer_cues applied to every bounded buffer and interval list *)

InitExtraer ==
    /\ pc = "call"
    /\ Rest("_extraer_cues")
    /\ \E n \in 0..MaxBuf : y = Ramp(n)
    /\ sr \in ExtractorRates
    /\ intervalos \in SeqsUpTo(Pares, MaxIntervalos)
    /\ max_muestras \in MaxMuestras
    /\ auto_cues = FALSE
    /\ beats_por_cue = DEFAULT_BEATS_POR_CUE
    /\ beat_frames = [kind |-> "list", frames |-> << >>]
    /\ duracion = 0

ApplyExtraer ==
    /\ pc = "call"
    /\ entry = "_extraer_cues"
    /\ LET r == _extraer_cues(y, sr, intervalos, max_muestras)
       IN /\ error' = r.error
          /\ retorno' = IF r.error = "none" THEN r.cues ELSE NoValue
    /\ pc' = "done"
    /\ UNCHANGED << entry, intervalos, auto_cues, beats_por_cue, max_muestras, modo, y, sr,
                    tempo, beat_frames, duracion, intervalos_limpios, cues, llamadas,
                    resultado >>

-----------------------------------------------------------------------------
(* analizar_audio and the entry points extraer_bpm, calcular_cues *)

InitAnalisis ==
    /\ pc = "idle"
    /\ Rest("none")
    /\ intervalos = << >>
    /\ auto_cues = FALSE
    /\ beats_por_cue = DEFAULT_BEATS_POR_CUE
    /\ max_muestras = DEFAULT_MAX_MUESTRAS_CUE
    /\ y = << >>
    /\ sr = 0
    /\ beat_frames = [kind |-> "list", frames |-> << >>]
    /\ duracion = 0

\* a direct call analizar_audio(ruta, intervalos, auto_cues, beats_por_cue, max_muestras_cue)
Llamar_analizar_audio ==
    /\ pc = "idle"
    /\ entry' = "analizar_audio"
    /\ intervalos' \in SeqsUpTo(ParesExplicitos, MaxExplicitos)
    /\ auto_cues' \in BOOLEAN
    /\ beats_por_cue' \in {1, DEFAULT_BEATS_POR_CUE}
    /\ max_muestras' \in {0, 2}
    /\ pc' = "llamada"
    /\ UNCHANGED << modo, y, sr, tempo, beat_frames, duracion, intervalos_limpios, cues,
                    llamadas, resultado, error, retorno >>

\* mutant: extraer_bpm leaves auto_cues at its default, True
Llamar_extraer_bpm_AutoCues ==
    /\ pc = "idle"
    /\ entry' = "extraer_bpm"
    /\ intervalos' = << >>
    /\ auto_cues' = TRUE
    /\ beats_por_cue' = DEFAULT_BEATS_POR_CUE
    /\ max_muestras' = DEFAULT_MAX_MUESTRAS_CUE
    /\ pc' = "llamada"
    /\ UNCHANGED << modo, y, sr, tempo, beat_frames, duracion, intervalos_limpios, cues,
                    llamadas, resultado, error, retorno >>

\* extraer_bpm(ruta): analizar_audio(ruta, auto_cues=False)
Llamar_extraer_bpm ==
    /\ pc = "idle"
    /\ entry' = "extraer_bpm"
    /\ intervalos' = << >>
    /\ auto_cues' = FALSE
    /\ beats_por_cue' = DEFAULT_BEATS_POR_CUE
    /\ max_muestras' = DEFAULT_MAX_MUESTRAS_CUE
    /\ pc' = "llamada"
    /\ UNCHANGED << modo, y, sr, tempo, beat_frames, duracion, intervalos_limpios, cues,
                    llamadas, resultado, error, retorno >>

\* calcular_cues(ruta, intervalos, max_muestras_cue):
\* analizar_audio(ruta, intervalos=intervalos, auto_cues=False, max_muestras_cue=...)
Llamar_calcular_cues ==
    /\ pc = "idle"
    /\ entry' = "calcular_cues"
    /\ intervalos' \in SeqsUpTo(ParesExplicitos, MaxExplicitos)
    /\ auto_cues' = FALSE
    /\ beats_por_cue' = DEFAULT_BEATS_POR_CUE
    /\ max_muestras' \in {0, 2, DEFAULT_MAX_MUESTRAS_CUE}
    /\ pc' = "llamada"
    /\ UNCHANGED << modo, y, sr, tempo, beat_frames, duracion, intervalos_limpios, cues,
                    llamadas, resultado, error, retorno >>

\* lines 101-103: the path does not exist
RutaNoExiste ==
    /\ pc = "llamada"
    /\ error' = "FileNotFoundError"
    /\ pc' = "fallo"
    /\ UNCHANGED << entry, intervalos, auto_cues, beats_por_cue, max_muestras, modo, y, sr,
                    tempo, beat_frames, duracion, intervalos_limpios, cues, llamadas,
                    resultado, retorno >>

\* mutant: the mode test looks at auto_cues alone
need_full_audio_SoloAuto == auto_cues

\* line 106
need_full_audio == (intervalos # << >>) \/ auto_cues

\* lines 108-116: librosa.load in one of the two modes, beat_track, get_duration
Cargar ==
    /\ pc = "llamada"
    /\ modo' = IF need_full_audio THEN "full" ELSE "fast"
    /\ \E d \in Decoded(modo') :
          /\ y' = d.y
          /\ sr' = d.sr
          /\ duracion' = (Len(d.y) * TicksPerSec) \div d.sr
    /\ tempo' \in Tempos
    /\ \E b \in TrackerBeats : beat_frames' = [kind |-> "ndarray", frames |-> b]
    /\ pc' = "cargado"
    /\ UNCHANGED << entry, intervalos, auto_cues, beats_por_cue, max_muestras,
                    intervalos_limpios, cues, llamadas, resultado, error, retorno >>

\* mutant: the pairs are kept in reverse order
Limpiar_AlReves(ints, duracion_) ==
    LET validos == SelectSeq(ints, LAMBDA p : p[2] > p[1])
    IN [k \in 1..Len(validos) |->
           << Max(0, validos[Len(validos) + 1 - k][1]),
              Min(validos[Len(validos) + 1 - k][2], duracion_) >>]

\* lines 119-123: the raw pairs with fin > inicio, each clipped to [0, duracion]
Limpiar(ints, duracion_) ==
    LET validos == SelectSeq(ints, LAMBDA p : p[2] > p[1])
    IN [k \in 1..Len(validos) |->
           << Max(0, validos[k][1]), Min(validos[k][2], duracion_) >>]

\* lines 118-123
ResolverExplicitos ==
    /\ pc = "cargado"
    /\ intervalos # << >>
    /\ intervalos_limpios' = Limpiar(intervalos, duracion)
    /\ pc' = "resuelto"
    /\ UNCHANGED << entry, intervalos, auto_cues, beats_por_cue, max_muestras, modo, y, sr,
                    tempo, beat_frames, duracion, cues, llamadas, resultado, error,
                    retorno >>

\* lines 124-125: _intervalos_desde_beats on the tracker's array
ResolverAuto ==
    /\ pc = "cargado"
    /\ intervalos = << >>
    /\ auto_cues
    /\ llamadas' = llamadas \cup {"_intervalos_desde_beats"}
    /\ \E o \in NotBeatFrames(beat_frames) :
          \/ /\ o = "ValueError"
             /\ error' = "ValueError"
             /\ pc' = "fallo"
             /\ UNCHANGED intervalos_limpios
          \/ /\ o # "ValueError"
             /\ intervalos_limpios' =
                    _intervalos_desde_beats(beat_frames.frames, sr, duracion,
                                            beats_por_cue, o = "True")
             /\ pc' = "resuelto"
             /\ UNCHANGED error
    /\ UNCHANGED << entry, intervalos, auto_cues, beats_por_cue, max_muestras, modo, y, sr,
                    tempo, beat_frames, duracion, cues, resultado, retorno >>

\* lines 126-127
ResolverNinguno ==
    /\ pc = "cargado"
    /\ intervalos = << >>
    /\ ~auto_cues
    /\ intervalos_limpios' = << >>
    /\ pc' = "resuelto"
    /\ UNCHANGED << entry, intervalos, auto_cues, beats_por_cue, max_muestras, modo, y, sr,
                    tempo, beat_frames, duracion, cues, llamadas, resultado, error,
                    retorno >>

\* line 129
Extraer ==
    /\ pc = "resuelto"
    /\ IF intervalos_limpios # << >>
       THEN LET r == _extraer_cues(y, sr, intervalos_limpios, max_muestras)
            IN /\ llamadas' = llamadas \cup {"_extraer_cues"}
               /\ cues' = r.cues
               /\ error' = r.error
               /\ pc' = IF r.error = "none" THEN "extraido" ELSE "fallo"
       ELSE /\ cues' = << >>
            /\ pc' = "extraido"
            /\ UNCHANGED << llamadas, error >>
    /\ UNCHANGED << entry, intervalos, auto_cues, beats_por_cue, max_muestras, modo, y, sr,
                    tempo, beat_frames, duracion, intervalos_limpios, resultado, retorno >>

\* lines 131-136: the AnalysisResult is built and validated
Construir ==
    /\ pc = "extraido"
    /\ LET r == AnalysisResult(tempo, duracion, sr, cues)
       IN IF AnalysisResultValido(r)
          THEN /\ resultado' = r
               /\ pc' = "construido"
               /\ UNCHANGED error
          ELSE /\ error' = "ValidationError"
               /\ pc' = "fallo"
               /\ UNCHANGED resultado
    /\ UNCHANGED << entry, intervalos, auto_cues, beats_por_cue, max_muestras, modo, y, sr,
                    tempo, beat_frames, duracion, intervalos_limpios, cues, llamadas,
                    retorno >>

\* analizar_audio returns the result; extraer_bpm its bpm (line 142); calcular_cues
\* its cues (line 158)
Devolver ==
    /\ pc = "construido"
    /\ retorno' = CASE entry = "analizar_audio" -> resultado
                    [] entry = "extraer_bpm" -> resultado.bpm
                    [] entry = "calcular_cues" -> resultado.cues
    /\ pc' = "devuelto"
    /\ UNCHANGED << entry, intervalos, auto_cues, beats_por_cue, max_muestras, modo, y, sr,
                    tempo, beat_frames, duracion, intervalos_limpios, cues, llamadas,
                    resultado, error >>

-----------------------------------------------------------------------------

Init == InitDownsample \/ InitIntervalos \/ InitExtraer \/ InitAnalisis

Next ==
    \/ ApplyDownsample
    \/ ApplyIntervalos
    \/ ApplyExtraer
    \/ Llamar_analizar_audio
    \/ Llamar_extraer_bpm
    \/ Llamar_calcular_cues
    \/ RutaNoExiste
    \/ Cargar
    \/ ResolverExplicitos
    \/ ResolverAuto
    \/ ResolverNinguno
    \/ Extraer
    \/ Construir
    \/ Devolver

Spec == Init /\ [][Next]_vars

-----------------------------------------------------------------------------
(* Properties *)

ExtractorDone == entry = "_extraer_cues" /\ pc = "done" /\ error = "none"

\* the cues a finished call holds: the extractor's return value, or the cues of
\* the AnalysisResult that analizar_audio built
CuesEmitidos ==
    IF ExtractorDone THEN retorno
    ELSE IF resultado # NoValue THEN resultado.cues
    ELSE << >>

\* buffer_length / sample_rate, in ticks, for the call that emitted CuesEmitidos
DuracionDelBuffer == IF sr = 0 THEN 0 ELSE (Len(y) * TicksPerSec) \div sr

\* C1: every cue emitted by _extraer_cues, for any buffer, rate and interval list,
\* has 0 <= inicio < fin <= len(y) / sr; every cue of an AnalysisResult returned
\* by analizar_audio ends no later than that result's duracion.
C1_CuesDentroDelBuffer ==
    /\ \A k \in 1..Len(CuesEmitidos) :
          /\ 0 <= CuesEmitidos[k].inicio
          /\ CuesEmitidos[k].inicio < CuesEmitidos[k].fin
          /\ CuesEmitidos[k].fin <= DuracionDelBuffer
    /\ resultado # NoValue =>
          \A k \in 1..Len(resultado.cues) : resultado.cues[k].fin <= resultado.duracion

\* C1 witness: an interval starting before 0 and ending beyond the buffer was clipped
\* on both sides into a cue
C1_Witness ==
    /\ ExtractorDone
    /\ \E k \in 1..Len(intervalos) :
          /\ intervalos[k][1] < 0
          /\ intervalos[k][2] > DuracionDelBuffer
          /\ \E j \in 1..Len(retorno) :
                /\ retorno[j].nombre = NombreCue(k - 1)
                /\ retorno[j].inicio = 0
                /\ retorno[j].fin = DuracionDelBuffer

DownsampleDone == entry = "_downsample" /\ pc = "done"

\* C3: _downsample returns min(L, M) values for M > 0 and the input unchanged for
\* M <= 0; for L >= 2 and M >= 2 the first value returned is the input's first and
\* the last value returned is the input's last.
C3_LeyDeLongitud ==
    DownsampleDone =>
        /\ max_muestras > 0 => Len(retorno) = Min(Len(y), max_muestras)
        /\ max_muestras <= 0 => retorno = y
        /\ (Len(y) >= 2 /\ max_muestras >= 2) =>
              /\ retorno[1] = y[1]
              /\ retorno[Len(retorno)] = y[Len(y)]

\* C3 witness: a ramp was reduced to fewer points, at least two
C3_Witness ==
    /\ DownsampleDone
    /\ max_muestras >= 2
    /\ Len(y) > max_muestras + 1
    /\ y = Ramp(Len(y))
    /\ Len(retorno) = max_muestras

\* the number of samples of the slice a cue was cut from
MuestrasDelCue(c) == Muestra(c.fin, sr) - Muestra(c.inicio, sr)

\* C5 as stated: every emitted cue's forma is no longer than max_muestras, for every
\* value of max_muestras.
C5_FormaAcotada_Original ==
    \A k \in 1..Len(CuesEmitidos) : Len(CuesEmitidos[k].forma) <= max_muestras

\* C5 amended: for max_muestras > 0 every emitted cue's forma has
\* min(slice length, max_muestras) points, so at most max_muestras; for
\* max_muestras <= 0 the forma is the whole slice.
C5_FormaAcotada ==
    \A k \in 1..Len(CuesEmitidos) :
        /\ max_muestras > 0 =>
              Len(CuesEmitidos[k].forma) = Min(MuestrasDelCue(CuesEmitidos[k]), max_muestras)
        /\ max_muestras <= 0 =>
              Len(CuesEmitidos[k].forma) = MuestrasDelCue(CuesEmitidos[k])

\* C5 witness: a slice longer than a positive max_muestras was reduced to it
C5_Witness ==
    /\ ExtractorDone
    /\ max_muestras > 0
    /\ \E k \in 1..Len(retorno) :
          /\ MuestrasDelCue(retorno[k]) > max_muestras
          /\ Len(retorno[k].forma) = max_muestras

IntervalosDone == entry = "_intervalos_desde_beats" /\ pc = "done"

\* the beat times and the stride of the finished _intervalos_desde_beats call
TiemposDeBeats == Tiempos(beat_frames.frames, sr)
Paso == IF beats_por_cue >= 1 THEN beats_por_cue ELSE 1

\* 0-based positions at which a stride starts
InicioDeTramo(i) == i % Paso = 0 /\ i < Len(TiemposDeBeats) - 1

\* the span of the stride starting at 0-based position i
Tramo(i) ==
    LET j == IF i + Paso <= Len(TiemposDeBeats) - 1 THEN i + Paso
             ELSE Len(TiemposDeBeats) - 1
    IN << TiemposDeBeats[i + 1], TiemposDeBeats[j + 1] >>

\* every stride's span is at most 1 ms
TodosDegenerados ==
    \A i \in 0..(Len(TiemposDeBeats) - 1) :
        InicioDeTramo(i) => Tramo(i)[2] - Tramo(i)[1] <= MinSpan

\* C2 as stated: for a non-empty beat list the first interval starts at 0 and the
\* last interval ends at duracion exactly.
C2_Cobertura_Original ==
    (IntervalosDone /\ Len(beat_frames.frames) > 0) =>
        /\ Len(retorno) >= 1
        /\ retorno[1][1] = 0
        /\ retorno[Len(retorno)][2] = duracion

\* C2 amended: for a non-empty beat list the result is non-empty; its last interval
\* ends at duracion or later, and at duracion exactly when no beat lies beyond
\* duracion; its first interval starts at 0 when the result is the full-duration
\* fallback and otherwise at the beat time that starts the first stride longer than
\* 1 ms, which is 0 only when the first beat is at time 0.
C2_Cobertura ==
    (IntervalosDone /\ Len(beat_frames.frames) > 0) =>
        /\ Len(retorno) >= 1
        /\ retorno[Len(retorno)][2] >= duracion
        /\ TiemposDeBeats[Len(TiemposDeBeats)] <= duracion =>
              retorno[Len(retorno)][2] = duracion
        /\ IF TodosDegenerados THEN retorno[1][1] = 0
           ELSE \E i \in 0..(Len(TiemposDeBeats) - 1) :
                   /\ InicioDeTramo(i)
                   /\ Tramo(i)[2] - Tramo(i)[1] > MinSpan
                   /\ \A h \in 0..(i - 1) :
                         InicioDeTramo(h) => Tramo(h)[2] - Tramo(h)[1] <= MinSpan
                   /\ retorno[1][1] = Tramo(i)[1]
        /\ retorno[1][1] = 0 => (TodosDegenerados \/ TiemposDeBeats[1] = 0)

\* C2 witness: beats that start after 0 and stop short of duracion gave two or more
\* intervals, the first starting at the first beat and the last stretched to duracion
C2_Witness ==
    /\ IntervalosDone
    /\ Len(beat_frames.frames) >= 3
    /\ TiemposDeBeats[1] > 0
    /\ TiemposDeBeats[Len(TiemposDeBeats)] < duracion
    /\ Len(retorno) >= 2
    /\ retorno[1][1] = TiemposDeBeats[1]
    /\ retorno[Len(retorno)][2] = duracion

\* C7: _intervalos_desde_beats returns exactly [(0, duracion)] for an empty beat
\* list, for a single beat, and when every stride's span is at most 1 ms.
C7_Respaldo ==
    (IntervalosDone /\ (Len(beat_frames.frames) <= 1 \/ TodosDegenerados)) =>
        retorno = << << 0, duracion >> >>

\* C7 witness: two or more beats, all strides degenerate, one of them with a span
\* of exactly 1 ms
C7_Witness ==
    /\ IntervalosDone
    /\ Len(beat_frames.frames) >= 2
    /\ TodosDegenerados
    /\ \E i \in 0..(Len(TiemposDeBeats) - 1) :
          InicioDeTramo(i) /\ Tramo(i)[2] - Tramo(i)[1] = MinSpan
    /\ retorno = << << 0, duracion >> >>

\* the given pair clipped to [0, d]
Recortado(p, d) == << IF p[1] < 0 THEN 0 ELSE p[1], IF p[2] > d THEN d ELSE p[2] >>

\* the given intervals clipped to [0, d] that still have end > start, in given order
SubconjuntoValido(ints, d) ==
    LET rec == [k \in 1..Len(ints) |-> Recortado(ints[k], d)]
    IN SelectSeq(rec, LAMBDA p : p[2] > p[1])

\* of those, the ones whose slice holds at least one sample
ConMuestras(ints, d) ==
    SelectSeq(SubconjuntoValido(ints, d), LAMBDA p : Muestra(p[1], sr) < Muestra(p[2], sr))

ParesDe(cs) == [k \in 1..Len(cs) |-> << cs[k].inicio, cs[k].fin >>]

CalcularCuesDevuelto == entry = "calcular_cues" /\ pc = "devuelto"

\* C4 as stated: the (start, end) pairs of the cues calcular_cues returns are the
\* given intervals clipped to [0, duracion] that still have end > start, in given
\* order, and _intervalos_desde_beats is never used.
C4_Fidelidad_Original ==
    /\ entry = "calcular_cues" => "_intervalos_desde_beats" \notin llamadas
    /\ CalcularCuesDevuelto => ParesDe(retorno) = SubconjuntoValido(intervalos, duracion)

\* C4 amended: the (start, end) pairs of the cues calcular_cues returns are the
\* given intervals clipped to [0, duracion] that still have end > start and whose
\* slice int(start * sr) .. int(end * sr) holds at least one sample, in given order;
\* _intervalos_desde_beats is never used, also for an empty list and for a list of
\* invalid intervals only.
C4_Fidelidad ==
    /\ entry = "calcular_cues" => "_intervalos_desde_beats" \notin llamadas
    /\ CalcularCuesDevuelto => ParesDe(retorno) = ConMuestras(intervalos, duracion)

\* C4 witness: of two given intervals, both clipped, both were kept in given order,
\* and they differ
C4_Witness ==
    /\ CalcularCuesDevuelto
    /\ Len(intervalos) = 2
    /\ Len(retorno) = 2
    /\ ParesDe(retorno)[1] # ParesDe(retorno)[2]
    /\ ParesDe(retorno)[1] # intervalos[1]
    /\ ParesDe(retorno)[2] # intervalos[2]

\* what beat derivation is meant to yield for the tracker's beats in this call
DerivadosDeBeats ==
    _intervalos_desde_beats(beat_frames.frames, sr, duracion, beats_por_cue,
                            Len(beat_frames.frames) = 0)

Resuelto == pc \in {"resuelto", "extraido", "construido", "devuelto"}
Extraido == pc \in {"extraido", "construido", "devuelto"}

EnAnalisis == entry \in {"analizar_audio", "extraer_bpm", "calcular_cues"}

\* C6 as stated: in analizar_audio non-empty explicit intervals are the only source
\* of intervals; else with auto_cues the intervals are those _intervalos_desde_beats
\* yields for the tracker's beats, the cues are _extraer_cues' output for them, and
\* a track with two or more beats (and a tempo and duration that pass validation)
\* yields a result, not a failure; else cues is empty and _extraer_cues is not
\* invoked.
C6_Precedencia ==
    EnAnalisis =>
        /\ intervalos # << >> => "_intervalos_desde_beats" \notin llamadas
        /\ (intervalos = << >> /\ auto_cues /\ Len(beat_frames.frames) >= 2
               /\ tempo > 0 /\ duracion > 0) => pc # "fallo"
        /\ (intervalos = << >> /\ auto_cues /\ Resuelto) =>
              intervalos_limpios = DerivadosDeBeats
        /\ (intervalos = << >> /\ auto_cues /\ Extraido) =>
              cues = _extraer_cues(y, sr, DerivadosDeBeats, max_muestras).cues
        /\ (intervalos = << >> /\ ~auto_cues) =>
              cues = << >> /\ "_extraer_cues" \notin llamadas

\* C8: extraer_bpm returns the tempo of the analysis it runs; that analysis never
\* derives intervals, never invokes _extraer_cues and has no cues, whatever beats
\* the tracker reports.
C8_SoloTempo ==
    entry = "extraer_bpm" =>
        /\ llamadas = {}
        /\ intervalos_limpios = << >>
        /\ cues = << >>
        /\ resultado # NoValue => resultado.cues = << >> /\ resultado.bpm = tempo
        /\ pc = "devuelto" => retorno = tempo /\ retorno = resultado.bpm

\* C8 witness: extraer_bpm returned although the tracker reported several beats
C8_Witness ==
    /\ entry = "extraer_bpm"
    /\ pc = "devuelto"
    /\ Len(beat_frames.frames) >= 2
    /\ retorno = 120

\* C9 as stated: no AnalysisResult has bpm, duracion or sample_rate <= 0 or a cue
\* with fin <= inicio; when the tracker reports tempo 0 or the buffer has duration
\* 0 the call ends in a validation failure and no result is returned.
C9_Validacion ==
    /\ resultado # NoValue =>
          /\ resultado.bpm > 0
          /\ resultado.duracion > 0
          /\ resultado.sample_rate > 0
          /\ \A k \in 1..Len(resultado.cues) :
                resultado.cues[k].fin > resultado.cues[k].inicio
    /\ (modo # "none" /\ (tempo = 0 \/ duracion = 0)) =>
          /\ resultado = NoValue
          /\ retorno = NoValue
          /\ pc = "fallo" => error = "ValidationError"

\* C10 as stated: extraer_bpm always decodes in fast mode at 22050 Hz, calcular_cues
\* always in full mode, also for an empty list; analizar_audio decodes in full mode
\* exactly when intervalos is non-empty or auto_cues is true; the result's
\* sample_rate is the rate decoded at.
C10_Modo_Original ==
    modo # "none" =>
        /\ entry = "extraer_bpm" => modo = "fast" /\ sr = FAST_SR
        /\ entry = "calcular_cues" => modo = "full"
        /\ modo = "full" <=> (intervalos # << >> \/ auto_cues)
        /\ resultado # NoValue => resultado.sample_rate = sr

\* C10 amended: extraer_bpm always decodes in fast mode at 22050 Hz; calcular_cues
\* decodes in full mode for a non-empty list and in fast mode for an empty one;
\* analizar_audio decodes in full mode exactly when intervalos is non-empty or
\* auto_cues is true; the result's sample_rate is the rate decoded at.
C10_Modo ==
    modo # "none" =>
        /\ entry = "extraer_bpm" => modo = "fast" /\ sr = FAST_SR
        /\ entry = "calcular_cues" => (modo = "full" <=> intervalos # << >>)
        /\ modo = "fast" => sr = FAST_SR
        /\ modo = "full" <=> (intervalos # << >> \/ auto_cues)
        /\ resultado # NoValue => resultado.sample_rate = sr

\* C10 witness: calcular_cues with an empty list returned after a fast-mode decode,
\* and one with a non-empty list after a full-mode decode is covered by C4's witness
C10_Witness ==
    /\ entry = "calcular_cues"
    /\ pc = "devuelto"
    /\ intervalos = << >>
    /\ modo = "fast"
    /\ retorno = << >>

\* the interval list the extractor was handed in the call under way
EntradaDelExtractor == IF ExtractorDone THEN intervalos ELSE intervalos_limpios

\* interval p yields a cue: clipped to the buffer it has end > start and its slice
\* holds a sample
DaCue(p) ==
    LET r == Recortado(p, DuracionDelBuffer)
    IN r[2] > r[1] /\ Muestra(r[1], sr) < Muestra(r[2], sr)

\* the 1-based positions from k on, in increasing order, of the intervals that yield a cue
RECURSIVE PosicionesConCue(_, _)
PosicionesConCue(ints, k) ==
    IF k > Len(ints) THEN << >>
    ELSE (IF DaCue(ints[k]) THEN << k >> ELSE << >>) \o PosicionesConCue(ints, k + 1)

\* C11: the j-th emitted cue is named "cue_i", i the zero-based position in the
\* extractor's input list of the j-th interval that yields a cue, so skipped
\* intervals leave gaps; the names of one result are pairwise distinct and follow
\* the interval order.
C11_Nombres ==
    LET ps == PosicionesConCue(EntradaDelExtractor, 1)
    IN /\ (ExtractorDone \/ resultado # NoValue) => Len(CuesEmitidos) = Len(ps)
       /\ \A j \in 1..Len(CuesEmitidos) :
             /\ CuesEmitidos[j].nombre = "cue_" \o ToString(ps[j] - 1)
             /\ CuesEmitidos[j].inicio = Recortado(EntradaDelExtractor[ps[j]],
                                                   DuracionDelBuffer)[1]
             /\ CuesEmitidos[j].fin = Recortado(EntradaDelExtractor[ps[j]],
                                                DuracionDelBuffer)[2]
       /\ \A i, j \in 1..Len(CuesEmitidos) :
             i < j => /\ CuesEmitidos[i].nombre # CuesEmitidos[j].nombre
                      /\ ps[i] < ps[j]

\* C11 witness: the first interval was skipped and the second became "cue_1"
C11_Witness ==
    /\ ExtractorDone
    /\ Len(intervalos) >= 2
    /\ ~DaCue(intervalos[1])
    /\ Len(retorno) >= 1
    /\ retorno[1].nombre = "cue_1"

\* the list _intervalos_desde_beats returned in the call under way, << >> if none
Derivados ==
    IF IntervalosDone THEN retorno
    ELSE IF "_intervalos_desde_beats" \in llamadas /\ Resuelto THEN intervalos_limpios
    ELSE << >>

\* every interval has end > start and starts no earlier than the previous one ends
SinSolape(ints) ==
    \A k \in 1..Len(ints) :
        /\ ints[k][2] > ints[k][1]
        /\ k > 1 => ints[k][1] >= ints[k - 1][2]

\* C12 as stated: whatever the arguments, the list _intervalos_desde_beats returns
\* is ordered and non-overlapping, and every interval has end > start.
C12_SinSolape_Original == SinSolape(Derivados)

\* C12 amended: whenever duracion > 0, the list _intervalos_desde_beats returns is
\* ordered and non-overlapping and every interval has end > start, also after the
\* last interval has been stretched to duracion; with duracion = 0 the fallback is
\* the empty interval (0, 0).
C12_SinSolape ==
    /\ duracion > 0 => SinSolape(Derivados)
    /\ (duracion = 0 /\ Derivados # << >>) => Derivados = << << 0, 0 >> >>

\* C12 witness: a degenerate stride was dropped between two retained ones, leaving
\* a gap, and the last interval was stretched to duracion
C12_Witness ==
    /\ IntervalosDone
    /\ Len(retorno) >= 2
    /\ \E k \in 2..Len(retorno) : retorno[k][1] > retorno[k - 1][2]
    /\ TiemposDeBeats[Len(TiemposDeBeats)] < duracion
    /\ retorno[Len(retorno)][2] = duracion

\* a[i..] can be read off b[j..] in order, each position of b used at most once
RECURSIVE EsSubsecuenciaDesde(_, _, _, _)
EsSubsecuenciaDesde(a, b, i, j) ==
    IF i > Len(a) THEN TRUE
    ELSE IF j > Len(b) THEN FALSE
    ELSE IF a[i] = b[j] THEN EsSubsecuenciaDesde(a, b, i + 1, j + 1)
    ELSE EsSubsecuenciaDesde(a, b, i, j + 1)

\* _downsample reduced its input
Reducido == DownsampleDone /\ Len(y) > max_muestras /\ max_muestras > 0

\* C13: when _downsample reduces its input (L > M > 0) the M positions it selects
\* lie in [0, L - 1] and are strictly increasing, the only position being 0 when
\* M = 1: the output is a subsequence of the input in its order.  On a ramp, whose
\* value at 0-based position p is p + 1, the output lists the selected positions.
C13_PosicionesCrecientes ==
    Reducido =>
        /\ Len(retorno) = max_muestras
        /\ EsSubsecuenciaDesde(retorno, y, 1, 1)
        /\ max_muestras = 1 => retorno = << y[1] >>
        /\ y = Ramp(Len(y)) =>
              \A i \in 1..Len(retorno) :
                  /\ retorno[i] - 1 >= 0
                  /\ retorno[i] - 1 <= Len(y) - 1
                  /\ i > 1 => retorno[i] > retorno[i - 1]

\* C13 witness: a ramp was reduced to three or more points with uneven gaps
C13_Witness ==
    /\ Reducido
    /\ y = Ramp(Len(y))
    /\ max_muestras >= 3
    /\ \E i \in 2..(Len(retorno) - 1) :
          retorno[i + 1] - retorno[i] # retorno[i] - retorno[i - 1]

====
